---- MODULE Spec2Model ----
(***************************************************************************)
(* Model of the todo application of src/src/main.rs: TodoItem entities,    *)
(* the TodoList that owns them, the InputState draft and the TodoApp that  *)
(* wires the input's events to the list.                                   *)
(*                                                                         *)
(* The toolkit runs every listener on one thread.  An emit() made inside a *)
(* listener is appended to the application's queue of pending effects and  *)
(* the queue is drained, in order, before the next input of the user is    *)
(* looked at: the actions that stand for an input of the user are enabled  *)
(* only when pending_effects is empty, and the Handle... actions deliver   *)
(* the effect at the head of the queue.                                    *)
(***************************************************************************)
EXTENDS Naturals, Sequences, FiniteSets

VARIABLES
    entities,            \* live TodoItem entities: handle -> [id, title, completed]
    next_entity,         \* the handle the next cx.new(TodoItem) gets
    items,               \* TodoList.items: handles, in display order
    list_subscriptions,  \* TodoList._subscriptions: one token per subscribe, named by its emitter
    event_listeners,     \* emitters on which the list's DeleteTodo callback is registered
    text,                \* the value of the InputState
    editing_text,        \* TodoApp.editing_text
    pending_effects,     \* events emitted and not yet delivered
    frame,               \* the item views of the last paint
    dirty                \* a notify() asked for a repaint

vars == <<entities, next_entity, items, list_subscriptions, event_listeners,
          text, editing_text, pending_effects, frame, dirty>>

----------------------------------------------------------------------------
(* Bounds *)

MaxEntities == 3     \* add_item calls in one run
MaxTextLen == 1      \* length of a draft
NumUuids == 1        \* values Uuid::new_v4 can draw

Alphabet == {"a"}

Drafts == UNION {[1..n -> Alphabet] : n \in 0..MaxTextLen}

Uuids == 1..NumUuids

----------------------------------------------------------------------------
(* Helpers *)

Range(s) == {s[k] : k \in 1..Len(s)}

\* SharedString::new("")
EmptyString == <<>>

\* a retain that keeps the entries before e and drops the rest
retain_truncate(s, e) == SelectSeq(s, LAMBDA i : i < e)

\* a retain whose predicate keeps every entry
retain_keep_all(s, e) == SelectSeq(s, LAMBDA i : TRUE)

\* Vec::retain(|i| *i != e)
retain(s, e) == SelectSeq(s, LAMBDA i : i # e)

\* events
Change == [type |-> "Change"]
PressEnter(secondary) == [type |-> "PressEnter", secondary |-> secondary]
DeleteTodo(emitter) == [type |-> "DeleteTodo", emitter |-> emitter]

\* An entity lives as long as a strong handle to it exists; the only strong
\* handles to a TodoItem are the entries of TodoList.items.
ReleaseDropped(ents, its) == [h \in (DOMAIN ents) \cap Range(its) |-> ents[h]]

----------------------------------------------------------------------------
(* TodoItem *)

\* a constructor that creates the item completed
TodoItem_new_done(title, uuid) == [id |-> uuid, title |-> title, completed |-> TRUE]

TodoItem_new(title, uuid) == [id |-> uuid, title |-> title, completed |-> FALSE]

----------------------------------------------------------------------------
(* TodoList *)

TodoList_new ==
    /\ items = <<>>
    /\ list_subscriptions = <<>>

\* an add_item that puts the new item in front
add_item_prepend(title, uuid) ==
    LET item == next_entity IN
    /\ next_entity' = next_entity + 1
    /\ entities' = [h \in (DOMAIN entities) \cup {item} |->
                       IF h = item THEN TodoItem_new(title, uuid) ELSE entities[h]]
    /\ event_listeners' = event_listeners \cup {item}
    /\ items' = <<item>> \o items
    /\ list_subscriptions' = Append(list_subscriptions, item)

\* an add_item that creates and subscribes the item and does not push it
add_item_nopush(title, uuid) ==
    LET item == next_entity IN
    /\ next_entity' = next_entity + 1
    /\ entities' = [h \in (DOMAIN entities) \cup {item} |->
                       IF h = item THEN TodoItem_new(title, uuid) ELSE entities[h]]
    /\ event_listeners' = event_listeners \cup {item}
    /\ items' = items
    /\ list_subscriptions' = Append(list_subscriptions, item)

\* lines 99-112: cx.new, cx.subscribe, items.push, _subscriptions.push
add_item(title, uuid) ==
    LET item == next_entity IN
    /\ next_entity' = next_entity + 1
    /\ entities' = [h \in (DOMAIN entities) \cup {item} |->
                       IF h = item THEN TodoItem_new(title, uuid) ELSE entities[h]]
    /\ event_listeners' = event_listeners \cup {item}
    /\ items' = Append(items, item)
    /\ list_subscriptions' = Append(list_subscriptions, item)

\* the value add_item returns: the id read from the new item (lines 101, 111)
add_item_result(title, uuid) == TodoItem_new(title, uuid).id

----------------------------------------------------------------------------
(* TodoApp *)

Init ==
    /\ entities = <<>>
    /\ next_entity = 1
    /\ TodoList_new
    /\ event_listeners = {}
    /\ text = EmptyString
    /\ editing_text = EmptyString
    /\ pending_effects = <<>>
    /\ frame = <<>>
    /\ dirty = TRUE

\* the user edits the draft: the InputState takes the new value and emits Change
SetText(v) ==
    /\ pending_effects = <<>>
    /\ v # text
    /\ text' = v
    /\ pending_effects' = <<Change>>
    /\ UNCHANGED <<entities, next_entity, items, list_subscriptions,
                   event_listeners, editing_text, frame, dirty>>

\* a Change arm that does not copy the value of the input
HandleChange_stale ==
    /\ pending_effects # <<>>
    /\ Head(pending_effects).type = "Change"
    /\ editing_text' = editing_text
    /\ dirty' = TRUE
    /\ pending_effects' = Tail(pending_effects)
    /\ UNCHANGED <<entities, next_entity, items, list_subscriptions,
                   event_listeners, text, frame>>

\* InputEvent::Change
HandleChange ==
    /\ pending_effects # <<>>
    /\ Head(pending_effects).type = "Change"
    /\ editing_text' = text
    /\ dirty' = TRUE
    /\ pending_effects' = Tail(pending_effects)
    /\ UNCHANGED <<entities, next_entity, items, list_subscriptions,
                   event_listeners, text, frame>>

\* the user presses Enter in the input: the InputState emits PressEnter
PressEnterKey(secondary) ==
    /\ pending_effects = <<>>
    /\ next_entity <= MaxEntities
    /\ pending_effects' = <<PressEnter(secondary)>>
    /\ UNCHANGED <<entities, next_entity, items, list_subscriptions,
                   event_listeners, text, editing_text, frame, dirty>>

\* a PressEnter arm that does not call set_value("")
PressEnterCommit_keep_text(uuid) ==
    /\ add_item(editing_text, uuid)
    /\ editing_text' = EmptyString
    /\ text' = text
    /\ dirty' = TRUE

\* a PressEnter arm that refuses an empty draft
PressEnterCommit_validate(uuid) ==
    IF editing_text = EmptyString
    THEN UNCHANGED <<entities, next_entity, items, list_subscriptions,
                     event_listeners, editing_text, text, dirty>>
    ELSE /\ add_item(editing_text, uuid)
         /\ editing_text' = EmptyString
         /\ text' = EmptyString
         /\ dirty' = TRUE

\* a PressEnter arm that clears the draft before it adds the item
PressEnterCommit_clear_first(uuid) ==
    /\ editing_text' = EmptyString
    /\ add_item(editing_text', uuid)
    /\ text' = EmptyString
    /\ dirty' = TRUE

\* the body of the PressEnter arm when secondary is false; set_value("")
\* replaces the value of the InputState, which emits Change
PressEnterCommit(uuid) ==
    /\ add_item(editing_text, uuid)
    /\ editing_text' = EmptyString
    /\ text' = EmptyString
    /\ dirty' = TRUE

\* a set_value whose effect is a second commit
PressEnterEmits_recommit == <<PressEnter(FALSE)>>

PressEnterEmits == <<Change>>

\* a PressEnter arm that does not test secondary
HandlePressEnter_any ==
    /\ pending_effects # <<>>
    /\ Head(pending_effects).type = "PressEnter"
    /\ \E uuid \in Uuids : PressEnterCommit(uuid)
    /\ pending_effects' = Tail(pending_effects) \o PressEnterEmits
    /\ UNCHANGED frame

\* InputEvent::PressEnter { secondary }
HandlePressEnter ==
    /\ pending_effects # <<>>
    /\ Head(pending_effects).type = "PressEnter"
    /\ IF ~Head(pending_effects).secondary
       THEN /\ \E uuid \in Uuids : PressEnterCommit(uuid)
            /\ pending_effects' = Tail(pending_effects) \o PressEnterEmits
            /\ UNCHANGED frame
       ELSE /\ pending_effects' = Tail(pending_effects)
            /\ UNCHANGED <<entities, next_entity, items, list_subscriptions,
                           event_listeners, text, editing_text, frame, dirty>>

\* an "add" listener that does not reset editing_text
AddButtonCommit_keep_draft(uuid) ==
    /\ add_item(editing_text, uuid)
    /\ editing_text' = editing_text
    /\ text' = EmptyString
    /\ dirty' = TRUE

\* the body of the on_click listener of the "add" button
AddButtonCommit(uuid) ==
    /\ add_item(editing_text, uuid)
    /\ editing_text' = EmptyString
    /\ text' = EmptyString
    /\ dirty' = TRUE

AddButtonEmits == <<Change>>

\* the user clicks the "add" button
ClickAdd ==
    /\ pending_effects = <<>>
    /\ next_entity <= MaxEntities
    /\ \E uuid \in Uuids : AddButtonCommit(uuid)
    /\ pending_effects' = AddButtonEmits
    /\ UNCHANGED frame

----------------------------------------------------------------------------
(* The views of the items *)

\* a checkbox listener that writes the flag of every item
ClickCheckbox_all(item, e) ==
    /\ pending_effects = <<>>
    /\ item \in Range(frame)
    /\ IF item \in DOMAIN entities
       THEN /\ entities' = [h \in DOMAIN entities |-> [entities[h] EXCEPT !.completed = e]]
            /\ dirty' = TRUE
       ELSE UNCHANGED <<entities, dirty>>
    /\ UNCHANGED <<next_entity, items, list_subscriptions, event_listeners,
                   text, editing_text, pending_effects, frame>>

\* the user clicks the checkbox of a painted item; the listener holds a weak
\* handle and does nothing once the item is released
ClickCheckbox(item, e) ==
    /\ pending_effects = <<>>
    /\ item \in Range(frame)
    /\ IF item \in DOMAIN entities
       THEN /\ entities' = [entities EXCEPT ![item].completed = e]
            /\ dirty' = TRUE
       ELSE UNCHANGED <<entities, dirty>>
    /\ UNCHANGED <<next_entity, items, list_subscriptions, event_listeners,
                   text, editing_text, pending_effects, frame>>

\* a delete button that names its item by its place in the painted list
ClickDelete_by_index(item) ==
    /\ pending_effects = <<>>
    /\ item \in Range(frame)
    /\ LET k == CHOOSE j \in 1..Len(frame) : frame[j] = item IN
       IF k <= Len(items)
       THEN pending_effects' = <<DeleteTodo(items[k])>>
       ELSE UNCHANGED pending_effects
    /\ UNCHANGED <<entities, next_entity, items, list_subscriptions,
                   event_listeners, text, editing_text, frame, dirty>>

\* a delete listener that emits the signal twice
ClickDelete_twice(item) ==
    /\ pending_effects = <<>>
    /\ item \in Range(frame)
    /\ IF item \in DOMAIN entities
       THEN pending_effects' = <<DeleteTodo(item), DeleteTodo(item)>>
       ELSE UNCHANGED pending_effects
    /\ UNCHANGED <<entities, next_entity, items, list_subscriptions,
                   event_listeners, text, editing_text, frame, dirty>>

\* the user clicks the delete button of a painted item: c.emit(DeleteTodo)
ClickDelete(item) ==
    /\ pending_effects = <<>>
    /\ item \in Range(frame)
    /\ IF item \in DOMAIN entities
       THEN pending_effects' = <<DeleteTodo(item)>>
       ELSE UNCHANGED pending_effects
    /\ UNCHANGED <<entities, next_entity, items, list_subscriptions,
                   event_listeners, text, editing_text, frame, dirty>>

\* the callback add_item subscribed on the item, followed by the release of
\* the entities that lost their last handle
HandleDeleteTodo ==
    /\ pending_effects # <<>>
    /\ Head(pending_effects).type = "DeleteTodo"
    /\ LET e == Head(pending_effects).emitter IN
       IF e \in event_listeners
       THEN /\ items' = retain(items, e)
            /\ dirty' = TRUE
            /\ entities' = ReleaseDropped(entities, items')
            /\ event_listeners' = event_listeners \cap Range(items')
       ELSE UNCHANGED <<items, dirty, entities, event_listeners>>
    /\ pending_effects' = Tail(pending_effects)
    /\ UNCHANGED <<next_entity, list_subscriptions, text, editing_text, frame>>

\* TodoApp::render: the children are the handles of the list
Render ==
    /\ pending_effects = <<>>
    /\ dirty
    /\ frame' = items
    /\ dirty' = FALSE
    /\ UNCHANGED <<entities, next_entity, items, list_subscriptions,
                   event_listeners, text, editing_text, pending_effects>>

----------------------------------------------------------------------------

Next ==
    \/ \E v \in Drafts : SetText(v)
    \/ HandleChange
    \/ \E secondary \in BOOLEAN : PressEnterKey(secondary)
    \/ HandlePressEnter
    \/ ClickAdd
    \/ \E item \in Range(frame), e \in BOOLEAN : ClickCheckbox(item, e)
    \/ \E item \in Range(frame) : ClickDelete(item)
    \/ HandleDeleteTodo
    \/ Render

Spec == Init /\ [][Next]_vars

----------------------------------------------------------------------------
(* Properties *)

Last(s) == s[Len(s)]

\* the step is a commit: the delivery of a PressEnter that is not secondary,
\* or a click on the "add" button
CommitProcessed ==
    \/ /\ pending_effects # <<>>
       /\ Head(pending_effects) = PressEnter(FALSE)
    \/ /\ pending_effects = <<>>
       /\ next_entity' # next_entity

\* the step delivers the DeleteTodo of an item of the list
DeleteProcessed ==
    /\ pending_effects # <<>>
    /\ Head(pending_effects).type = "DeleteTodo"
    /\ Head(pending_effects).emitter \in Range(items)

\* s without its k-th entry
RemoveAt(s, k) == [j \in 1..(Len(s) - 1) |-> IF j < k THEN s[j] ELSE s[j + 1]]

\* C1: every call of add_item puts the new item at the end of items and
\* leaves the entries that were there in place, so that the order of items
\* is the order of the calls.
C1_AddItemAppends ==
    [][next_entity' # next_entity =>
          /\ Len(items') = Len(items) + 1
          /\ SubSeq(items', 1, Len(items)) = items
          /\ Last(items') = next_entity
          /\ \A i, j \in 1..Len(items') : i < j => items'[i] < items'[j]]_vars

C1_Witness ==
    /\ Len(items) >= 2
    /\ Last(items) = next_entity - 1
    /\ items[1] < items[2]

\* C2: the delivery of the DeleteTodo of item X removes exactly the entry of
\* X from items; every other entry stays, in the same order, with its id,
\* title and completed as they were.
C2_DeleteRemovesExactlyOne ==
    [][DeleteProcessed =>
          LET e == Head(pending_effects).emitter IN
          /\ \E k \in 1..Len(items) : items[k] = e /\ items' = RemoveAt(items, k)
          /\ e \notin Range(items')
          /\ \A h \in Range(items') : h \in DOMAIN entities' /\ entities'[h] = entities[h]]_vars

C2_Witness ==
    /\ items = <<1, 3>>
    /\ pending_effects = <<>>
    /\ entities[1].title # EmptyString
    /\ entities[3].completed

\* C3: a commit while the text of the input is not empty appends exactly one
\* item, whose title is that text and whose completed is false, and leaves
\* the text of the input empty.
C3_CommitNonEmpty ==
    [][(CommitProcessed /\ text # EmptyString) =>
          /\ Len(items') = Len(items) + 1
          /\ SubSeq(items', 1, Len(items)) = items
          /\ Last(items') \notin Range(items)
          /\ entities'[Last(items')].title = text
          /\ entities'[Last(items')].completed = FALSE
          /\ text' = EmptyString]_vars

C3_Witness ==
    /\ Len(items) >= 1
    /\ entities[Last(items)].title # EmptyString
    /\ ~entities[Last(items)].completed
    /\ text = EmptyString
    /\ pending_effects = <<Change>>

\* C4: whatever edits and commits came before, the title of the item a
\* commit appends is the text the input holds when the commit is processed.
C4_CommitsCurrentText ==
    [][CommitProcessed =>
          /\ items' # <<>>
          /\ entities'[Last(items')].title = text]_vars

C4_Witness ==
    /\ Len(items) >= 2
    /\ entities[items[1]].title # entities[items[2]].title
    /\ entities[items[2]].title # EmptyString
    /\ editing_text = EmptyString

\* C5: the list holds a subscription only for the items that are in items.
C5_SubscriptionsOnlyForListed ==
    Range(list_subscriptions) \subseteq Range(items)

\* C7: the commit of the PressEnter arm and the commit of the "add" button are
\* the same operation: a step is one exactly when it is the other, and both
\* emit the same events.
C7_CommitPathsAgree ==
    [][/\ \A uuid \in Uuids : AddButtonCommit(uuid) <=> PressEnterCommit(uuid)
       /\ AddButtonEmits = PressEnterEmits]_vars

C7_Witness ==
    /\ Len(items) >= 3
    /\ pending_effects = PressEnterEmits
    /\ editing_text = EmptyString
    /\ text = EmptyString
    /\ dirty

\* C8: a commit while the text of the input is empty appends an item with an
\* empty title and leaves the text empty.
C8_CommitEmpty ==
    [][(CommitProcessed /\ text = EmptyString) =>
          /\ Len(items') = Len(items) + 1
          /\ entities'[Last(items')].title = EmptyString
          /\ text' = EmptyString]_vars

C8_Witness ==
    /\ items # <<>>
    /\ entities[Last(items)].title = EmptyString
    /\ text = EmptyString
    /\ next_entity = Last(items) + 1

\* C9: a commit splits the text of the input between the title of the new
\* item and the draft left behind, with nothing lost and nothing twice, and
\* an edit outside a commit changes no item.
C9_ReadThenClearAtomic ==
    [][/\ CommitProcessed =>
             /\ entities'[Last(items')].title \o text' = text
             /\ editing_text' = text'
       /\ (~CommitProcessed /\ text' # text) =>
             /\ entities' = entities
             /\ items' = items]_vars

C9_Witness ==
    /\ items # <<>>
    /\ text # EmptyString
    /\ editing_text = text
    /\ entities[Last(items)].title # EmptyString
    /\ pending_effects = <<>>

\* C10: the handles of items are the live items, in every state: no entry of
\* items is released and no item outlives its entry.
C10_ListedItemsLive ==
    /\ Range(items) \subseteq DOMAIN entities
    /\ DOMAIN entities \subseteq Range(items)

C10_Witness ==
    /\ items # <<>>
    /\ Cardinality(DOMAIN entities) < next_entity - 1
    /\ 1 \notin DOMAIN entities

\* the effect at the head of the queue is the DeleteTodo of some item
DeletePending ==
    /\ pending_effects # <<>>
    /\ Head(pending_effects).type = "DeleteTodo"

\* C11: a delete is ordered.  The click only queues the signal while the item
\* is still listed; the one step possible from there is the reaction of the
\* list, which removes the item and empties the queue; the inputs of the user
\* wait for the empty queue, so none sees the item requested and still listed.
C11_DeleteOrdered ==
    [][/\ (~DeletePending /\ DeletePending') =>
             /\ pending_effects = <<>>
             /\ Head(pending_effects').emitter \in Range(items')
       /\ DeletePending =>
             /\ Head(pending_effects).emitter \notin Range(items')
             /\ Head(pending_effects).emitter \notin DOMAIN entities'
             /\ pending_effects' = <<>>]_vars

C11_Witness ==
    /\ DeletePending
    /\ Len(items) >= 2
    /\ Head(pending_effects).emitter = items[1]

\* C12: a click on the checkbox of item X with value v sets the completed of
\* X to v and changes nothing else: not the other items, not the id or the
\* title of X, not items, and no event is emitted.
C12_ToggleFrame ==
    [][\A item \in Range(frame) \cap DOMAIN entities, e \in BOOLEAN :
          ClickCheckbox(item, e) =>
             /\ DOMAIN entities' = DOMAIN entities
             /\ entities'[item].completed = e
             /\ entities'[item].id = entities[item].id
             /\ entities'[item].title = entities[item].title
             /\ \A h \in DOMAIN entities \ {item} : entities'[h] = entities[h]
             /\ items' = items
             /\ pending_effects' = <<>>]_vars

C12_Witness ==
    /\ pending_effects = <<>>
    /\ Len(items) >= 2
    /\ entities[items[1]].completed
    /\ ~entities[items[2]].completed

\* C13: right after add_item(X) returns id i, the last entry of items is a
\* new item whose id is i, whose title is X and whose completed is false.
\* (Both callers pass editing_text as X.)
C13_ReadAfterAdd ==
    [][next_entity' # next_entity =>
          \E uuid \in Uuids :
             /\ Last(items') \notin Range(items)
             /\ entities'[Last(items')].id = add_item_result(editing_text, uuid)
             /\ entities'[Last(items')].title = editing_text
             /\ entities'[Last(items')].completed = FALSE]_vars

C13_Witness ==
    /\ Len(items) >= 2
    /\ Last(items) = next_entity - 1
    /\ pending_effects = <<Change>>
    /\ entities[Last(items)].id \in Uuids
    /\ ~entities[Last(items)].completed
    /\ entities[items[1]].completed

\* C14: a click on the delete button of a live item emits exactly one
\* DeleteTodo and does nothing else: the item keeps its id, title and
\* completed and stays in items; items loses an entry only in the reaction
\* of the list to the signal.
C14_RequestDeleteOnlyEmits ==
    [][/\ \A item \in Range(frame) \cap DOMAIN entities :
             ClickDelete(item) =>
                /\ pending_effects' = <<DeleteTodo(item)>>
                /\ entities' = entities
                /\ items' = items
                /\ item \in Range(items')
       /\ Len(items') < Len(items) => DeletePending]_vars

C14_Witness ==
    /\ items # <<>>
    /\ pending_effects = <<DeleteTodo(Last(items))>>
    /\ entities[Last(items)].completed
    /\ entities[Last(items)].title # EmptyString

\* the deliveries an effect can still cause, itself included
EffectRank(ev) == IF ev.type = "PressEnter" THEN 2 ELSE 1

RECURSIVE ChainRank(_)
ChainRank(q) == IF q = <<>> THEN 0 ELSE EffectRank(Head(q)) + ChainRank(Tail(q))

\* C15: every input of the user starts a finite chain of deliveries.  An
\* input queues effects of rank 2 at most; each delivery consumes the head of
\* the queue, adds nothing but Change events (never a second commit, never a
\* second delete) and lowers the rank of the queue, so the queue empties.
C15_FiniteChain ==
    [][/\ pending_effects = <<>> => ChainRank(pending_effects') <= 2
       /\ pending_effects # <<>> =>
             LET rest == Tail(pending_effects) IN
             /\ Len(pending_effects') >= Len(rest)
             /\ SubSeq(pending_effects', 1, Len(rest)) = rest
             /\ \A k \in (Len(rest) + 1)..Len(pending_effects') :
                   pending_effects'[k] = Change
             /\ ChainRank(pending_effects') < ChainRank(pending_effects)]_vars

C15_Witness ==
    /\ pending_effects = <<PressEnter(FALSE)>>
    /\ items # <<>>
    /\ text # EmptyString

\* C16: whenever no event is pending, editing_text is the text of the input.
C16_DraftInSync ==
    pending_effects = <<>> => editing_text = text

C16_Witness ==
    /\ pending_effects = <<>>
    /\ text # EmptyString
    /\ editing_text = text
    /\ items # <<>>
    /\ entities[Last(items)].completed
    /\ next_entity > Len(items) + 1

\* C17: the delivery of a PressEnter with secondary set changes neither
\* items, nor any item, nor editing_text, nor the text of the input; items
\* grows only in the delivery of a PressEnter that is not secondary or in a
\* click (of the "add" button) taken with no event pending.
C17_SecondaryEnterIsNoCommit ==
    [][/\ (pending_effects # <<>> /\ Head(pending_effects) = PressEnter(TRUE)) =>
             /\ items' = items
             /\ entities' = entities
             /\ editing_text' = editing_text
             /\ text' = text
             /\ pending_effects' = Tail(pending_effects)
       /\ Len(items') > Len(items) =>
             \/ pending_effects = <<>>
             \/ Head(pending_effects) = PressEnter(FALSE)]_vars

C17_Witness ==
    /\ pending_effects = <<PressEnter(TRUE)>>
    /\ text # EmptyString
    /\ items # <<>>

\* the handles add_item has given out that are no longer in items
Removed == (1..(next_entity - 1)) \ Range(items)

====
